---- MODULE Spec2Model ----
(***************************************************************************)
(* Verification model of the CDCT jury-consensus harness:                  *)
(*   - retry_handler.py   : classify_error, should_retry, call_with_retry  *)
(*   - llm_jury.py        : LLMJury.evaluate_response, _evaluate_with_agent,*)
(*                          _build_evaluation_prompt, _compute_consensus    *)
(*   - experiment_jury.py : run_experiment_with_jury, _analyze_jury_results *)
(* Scores are fixed-point numbers in units of 1/10000 (the code rounds the  *)
(* consensus to 4 decimals); weights are in hundredths.                     *)
(***************************************************************************)
EXTENDS Integers, Sequences, FiniteSets, TLC

VARIABLES
    \* ---- call_with_retry (retry_handler.py) ----
    rc_pc,            \* "idle" | "try" | "sleep" | "done"
    max_retries,      \* config.max_retries
    attempt,          \* loop variable of `for attempt in range(max_retries + 1)`
    invocations,      \* number of times func() has been invoked
    sleeps,           \* number of time.sleep(delay) calls made
    last_exception,   \* last_exception (NoException before the first failure)
    error_log,        \* error_callback calls: sequence of [attempt, error_type]
    rc_result         \* return value of call_with_retry (NotReturned while running)

retryVars == <<rc_pc, max_retries, attempt, invocations, sleeps, last_exception,
               error_log, rc_result>>

VARIABLES
    \* ---- LLMJury.evaluate_response (llm_jury.py) ----
    jury_pc,          \* "idle" | "dispatch" | "collect" | "returned"
    judges,           \* self.judges: judge name -> "agent" | "None"
    task,             \* per judge: "none" | "queued" | "CC" | "SA" | "FC" | "finished"
    scores,           \* per judge: scores dict of the running _evaluate_with_agent
    errors,           \* per judge: errors list (the metrics whose call or parse failed)
    elapsed,          \* per judge: seconds the task has been running
    jury_verdicts,    \* jury_verdicts dict: collected judge name -> verdict
    verdict_order,    \* insertion order of jury_verdicts
    query_log,        \* per judge: the metrics agent.query was called for, in call order
    consensus         \* the consensus of the returned result

juryVars == <<jury_pc, judges, task, scores, errors, elapsed, jury_verdicts,
              verdict_order, query_log, consensus>>

VARIABLES
    \* ---- LLMJury._build_evaluation_prompt, as called by evaluate_response ----
    prompt_pc,            \* "idle" | "input" | "rendered"
    compression_level,    \* in hundredths (30 is 0.3)
    response_word_count,  \* len(subject_response.split())
    expected_word_limit,  \* the argument of evaluate_response (Null for None)
    metric_to_evaluate,   \* "CC" | "SA" | "FC" | "all"
    prompt                \* the parts of the rendered prompt that vary

promptVars == <<prompt_pc, compression_level, response_word_count, expected_word_limit,
                metric_to_evaluate, prompt>>

VARIABLES
    \* ---- run_experiment_with_jury (experiment_jury.py) ----
    exp_pc,           \* "idle" | "loop" | "crashed" | "returned"
    step,             \* index in loaded_concept.corpus of the next step
    performance,      \* results["performance"]
    failed_levels,    \* results["failed_levels"] (the compression levels)
    analysis          \* results["analysis"]

expVars == <<exp_pc, step, performance, failed_levels, analysis>>

VARIABLES
    \* ---- LLMJury._compute_consensus on its own (llm_jury.py) ----
    agg_pc,           \* "idle" | "input" | "computed"
    agg_verdicts,     \* the jury_verdicts argument: judge name -> verdict
    agg_result        \* the consensus evaluate_response puts into its result

aggVars == <<agg_pc, agg_verdicts, agg_result>>

VARIABLES
    \* ---- agent.query followed by LLMJury._parse_verdict (llm_jury.py) ----
    parse_pc,         \* "idle" | "waiting" | "parsed" | "raised"
    agent_response,   \* what agent.query handed to _parse_verdict
    parsed            \* the dict _parse_verdict returned

parseVars == <<parse_pc, agent_response, parsed>>

VARIABLES
    \* ---- calculate_backoff_delay over the retries of one call (retry_handler.py) ----
    bo_pc,              \* "idle" | "loop"
    base_delay,         \* config.base_delay, in hundredths of a second
    max_delay,          \* config.max_delay, in hundredths of a second
    backoff_multiplier, \* config.backoff_multiplier, in tenths
    bo_attempt,         \* the attempt (0-indexed) of the next delay
    delays              \* per attempt so far: the capped delay and the returned delay

backoffVars == <<bo_pc, base_delay, max_delay, backoff_multiplier, bo_attempt, delays>>

VARIABLES
    \* ---- the cached client getters (agent.py) ----
    cl_pc,              \* per caller: its position in the getter
    cl_args,            \* per caller: the getter called and its two arguments
    clients,            \* per getter: its dict of clients (cache key -> client)
    lock_holder,        \* per getter: the callers inside `with lock` (none or one)
    created,            \* the clients constructed so far, in order
    cl_result,          \* per caller: the client returned
    foundry_available   \* ANTHROPIC_FOUNDRY_AVAILABLE

clientVars == <<cl_pc, cl_args, clients, lock_holder, created, cl_result, foundry_available>>

vars == <<retryVars, juryVars, promptVars, expVars, aggVars, parseVars, backoffVars,
          clientVars>>

\* What the actions of one component leave alone.
notRetry ==
    <<juryVars, promptVars, expVars, aggVars, parseVars, backoffVars,
      clientVars>>
notJury ==
    <<retryVars, promptVars, expVars, aggVars, parseVars, backoffVars,
      clientVars>>
notPrompt ==
    <<retryVars, juryVars, expVars, aggVars, parseVars, backoffVars,
      clientVars>>
notExperiment ==
    <<retryVars, juryVars, promptVars, aggVars, parseVars, backoffVars,
      clientVars>>
notAggregator ==
    <<retryVars, juryVars, promptVars, expVars, parseVars, backoffVars,
      clientVars>>
notParse ==
    <<retryVars, juryVars, promptVars, expVars, aggVars, backoffVars,
      clientVars>>
notBackoff ==
    <<retryVars, juryVars, promptVars, expVars, aggVars, parseVars,
      clientVars>>
notClients ==
    <<retryVars, juryVars, promptVars, expVars, aggVars, parseVars,
      backoffVars>>

None == "None"
NotReturned == "NotReturned"
\* `None` in the place of an exception (no message, no type name)
NoException == [msg |-> {}, type |-> {}]

(***************************************************************************)
(* Bounds of the model                                                     *)
(***************************************************************************)
MaxRetriesBound == 3
MaxBackoffAttempts == 4
NumCallers == 2
MaxFragments == 2
MaxTicks == 1
TickSeconds == 121
MaxResponseWords == 101
NumLevels == 2

(***************************************************************************)
(* retry_handler.py                                                        *)
(***************************************************************************)
TIMEOUT == "timeout"
RATE_LIMIT == "rate_limit"
SERVICE_ERROR == "service_error"
INVALID_REQUEST == "invalid_request"
AUTHENTICATION == "authentication"
OTHER_ == "other"
ErrorType == {TIMEOUT, RATE_LIMIT, SERVICE_ERROR, INVALID_REQUEST, AUTHENTICATION, OTHER_}

\* A text (an exception message, a type name) is the set of fragments that
\* occur in it; `pattern in text` is membership of the pattern.
MsgFragments == {"Timed out", "429", "503", "401", "400", "Connection reset"}
TypeNames == {{"Exception"}, {"Read", "Timeout"}}

LowerFragment(f) ==
    CASE f = "Timed out" -> "timed out"
      [] f = "Connection reset" -> "connection reset"
      [] f = "Exception" -> "exception"
      [] f = "Read" -> "read"
      [] f = "Timeout" -> "timeout"
      [] OTHER -> f

Lower(text) == {LowerFragment(f) : f \in text}

Messages == {m \in SUBSET MsgFragments : Cardinality(m) <= MaxFragments}
Exceptions == [msg : Messages, type : TypeNames]

AnyIn(patterns, text) == \E p \in patterns : p \in text

classify_error(exception) ==
    IF exception = NoException THEN OTHER_
    ELSE
    LET msg == Lower(exception.msg)
        exc_type == Lower(exception.type)
    IN  IF AnyIn({"timeout", "timed out", "deadline", "408"}, msg) THEN TIMEOUT
        ELSE IF AnyIn({"timeout", "deadline"}, exc_type) THEN TIMEOUT
        ELSE IF AnyIn({"rate limit", "429", "too many requests", "quota"}, msg) THEN RATE_LIMIT
        ELSE IF AnyIn({"503", "502", "500", "overloaded", "unavailable", "busy"}, msg)
          THEN SERVICE_ERROR
        ELSE IF AnyIn({"401", "403", "unauthorized", "forbidden", "invalid api", "authentication"}, msg)
          THEN AUTHENTICATION
        ELSE IF AnyIn({"400", "invalid", "malformed", "bad request"}, msg) THEN INVALID_REQUEST
        ELSE OTHER_

should_retry_budgetOnly(error_type, att, maxr) ==
    att < maxr

should_retry_offByOne(error_type, att, maxr) ==
    IF att + 1 >= maxr THEN FALSE
    ELSE IF error_type \in {TIMEOUT, RATE_LIMIT, SERVICE_ERROR} THEN TRUE
    ELSE IF error_type \in {AUTHENTICATION, INVALID_REQUEST} THEN FALSE
    ELSE att = 0

should_retry_authOnly(error_type, att, maxr) ==
    IF att >= maxr THEN FALSE
    ELSE IF error_type \in {TIMEOUT, RATE_LIMIT, SERVICE_ERROR} THEN TRUE
    ELSE IF error_type \in {AUTHENTICATION} THEN FALSE
    ELSE att = 0

should_retry(error_type, att, maxr) ==
    IF att >= maxr THEN FALSE
    ELSE IF error_type \in {TIMEOUT, RATE_LIMIT, SERVICE_ERROR} THEN TRUE
    ELSE IF error_type \in {AUTHENTICATION, INVALID_REQUEST} THEN FALSE
    ELSE att = 0

\* Values func() can return normally: a response text, or a legitimate None.
FuncValues == {"text", None}

IdleRetry ==
    /\ rc_pc = "idle"
    /\ max_retries = 0
    /\ attempt = 0
    /\ invocations = 0
    /\ sleeps = 0
    /\ last_exception = NoException
    /\ error_log = <<>>
    /\ rc_result = NotReturned

StartRetry ==
    /\ rc_pc = "try"
    /\ max_retries \in 0..MaxRetriesBound
    /\ attempt = 0
    /\ invocations = 0
    /\ sleeps = 0
    /\ last_exception = NoException
    /\ error_log = <<>>
    /\ rc_result = NotReturned

\* `return func()`: the attempt succeeds.
FuncReturns ==
    /\ rc_pc = "try"
    /\ attempt <= max_retries
    /\ \E v \in FuncValues :
        /\ invocations' = invocations + 1
        /\ rc_result' = v
        /\ rc_pc' = "done"
    /\ UNCHANGED <<max_retries, attempt, sleeps, last_exception, error_log>>
    /\ UNCHANGED notRetry

FuncRaises_sleepsBeforeDeciding ==
    /\ rc_pc = "try"
    /\ attempt <= max_retries
    /\ \E e \in Exceptions :
        /\ invocations' = invocations + 1
        /\ last_exception' = e
        /\ error_log' = Append(error_log,
                                [attempt |-> attempt + 1, error_type |-> classify_error(e)])
        /\ rc_result' = rc_result
        /\ rc_pc' = "sleep"
    /\ UNCHANGED <<max_retries, attempt, sleeps>>
    /\ UNCHANGED notRetry

\* func() raises e: the except block up to the sleep or the return None.
FuncRaises ==
    /\ rc_pc = "try"
    /\ attempt <= max_retries
    /\ \E e \in Exceptions :
        LET error_type == classify_error(e) IN
        /\ invocations' = invocations + 1
        /\ last_exception' = e
        /\ error_log' = Append(error_log, [attempt |-> attempt + 1, error_type |-> error_type])
        /\ IF ~should_retry(error_type, attempt, max_retries)
             THEN rc_result' = None /\ rc_pc' = "done"
           ELSE IF attempt < max_retries
             THEN rc_result' = rc_result /\ rc_pc' = "sleep"
           ELSE rc_result' = None /\ rc_pc' = "done"
    /\ UNCHANGED <<max_retries, attempt, sleeps>>
    /\ UNCHANGED notRetry

\* time.sleep(delay) returns and the for loop advances.
SleepReturns ==
    /\ rc_pc = "sleep"
    /\ sleeps' = sleeps + 1
    /\ attempt' = attempt + 1
    /\ IF attempt + 1 <= max_retries
         THEN rc_pc' = "try" /\ rc_result' = rc_result
         ELSE rc_pc' = "done" /\ rc_result' = None
    /\ UNCHANGED <<max_retries, invocations, last_exception, error_log>>
    /\ UNCHANGED notRetry

\* RetryableCall: the fields execute leaves behind. _callback stores the
\* attempt number of the latest failure; `self.failed = result is None`.
attempts == IF error_log = <<>> THEN 0 ELSE error_log[Len(error_log)].attempt
failed == rc_result = None

(***************************************************************************)
(* retry_handler.py: calculate_backoff_delay                               *)
(***************************************************************************)
\* RetryConfig values: base_delay 1.0 (the default) and 2.0 (the agents'),
\* max_delay 5.0 and 60.0, backoff_multiplier 0.5, 1.0, 1.5 and 2.0.
BaseDelays == {100, 200}
MaxDelays == {500, 6000}
BackoffMultipliers == {5, 10, 15, 20}

RECURSIVE Pow(_, _)
Pow(b, e) == IF e = 0 THEN 1 ELSE b * Pow(b, e - 1)

CappedDelay_uncapped(att, base, mult, maxd) ==
    (base * Pow(mult, att)) \div Pow(10, att)

\* delay = min(base_delay * backoff_multiplier ** attempt, max_delay)
CappedDelay(att, base, mult, maxd) ==
    LET delay == (base * Pow(mult, att)) \div Pow(10, att)
    IN  IF delay < maxd THEN delay ELSE maxd

\* random.uniform(0, delay * 0.1): the two ends and the middle.
Jitters(delay) == {0, delay \div 20, delay \div 10}

IdleBackoff ==
    /\ bo_pc = "idle"
    /\ base_delay = 100
    /\ max_delay = 6000
    /\ backoff_multiplier = 20
    /\ bo_attempt = 0
    /\ delays = <<>>

StartBackoff ==
    /\ bo_pc = "loop"
    /\ base_delay \in BaseDelays
    /\ max_delay \in MaxDelays
    /\ backoff_multiplier \in BackoffMultipliers
    /\ bo_attempt = 0
    /\ delays = <<>>

\* call_with_retry is about to retry: calculate_backoff_delay(attempt, config).
CalculateDelay ==
    /\ bo_pc = "loop"
    /\ bo_attempt < MaxBackoffAttempts
    /\ LET delay == CappedDelay(bo_attempt, base_delay, backoff_multiplier, max_delay)
       IN  \E jitter \in Jitters(delay) :
               delays' = Append(delays, [capped |-> delay, returned |-> delay + jitter])
    /\ bo_attempt' = bo_attempt + 1
    /\ UNCHANGED <<bo_pc, base_delay, max_delay, backoff_multiplier>>
    /\ UNCHANGED notBackoff

NextBackoff == CalculateDelay

(***************************************************************************)
(* agent.py: the connection pools                                          *)
(***************************************************************************)
Callers == 1..NumCallers
Getters == {"get_azure_openai_client", "get_openai_client", "get_azure_anthropic_client"}
ApiKeys == {"", "key-1", "key-2"}
Urls == {"https://host"}
CallArgs == [getter : Getters, api_key : ApiKeys, url : Urls]

\* Clients are numbered 1, 2, ... in the order of their construction; a caller
\* that has not returned holds none.
NoClient == 0

\* key = f"{api_key}:{endpoint}", and f"{base_url}:{api_key}" in
\* get_openai_client.
CacheKey(args) ==
    IF args.getter = "get_openai_client"
      THEN args.url \o ":" \o args.api_key
      ELSE args.api_key \o ":" \o args.url

\* The two Azure getters raise a ValueError on an empty argument.
ArgsRejected(args) ==
    /\ args.getter # "get_openai_client"
    /\ (args.api_key = "" \/ args.url = "")

IdleClients ==
    /\ cl_pc = [c \in Callers |-> "idle"]
    /\ cl_args = [c \in Callers |->
                    [getter |-> "get_openai_client", api_key |-> "", url |-> "https://host"]]
    /\ clients = [g \in Getters |-> <<>>]
    /\ lock_holder = [g \in Getters |-> {}]
    /\ created = <<>>
    /\ cl_result = [c \in Callers |-> NoClient]
    /\ foundry_available = TRUE

\* The module is imported (empty pools, free locks) and each caller is about
\* to call one of the getters.
StartClients ==
    /\ cl_pc = [c \in Callers |-> "called"]
    /\ cl_args \in [Callers -> CallArgs]
    /\ clients = [g \in Getters |-> <<>>]
    /\ lock_holder = [g \in Getters |-> {}]
    /\ created = <<>>
    /\ cl_result = [c \in Callers |-> NoClient]
    /\ foundry_available \in BOOLEAN

\* The argument checks, the key and the first `if key not in clients`.
FirstCheck(c) ==
    /\ cl_pc[c] = "called"
    /\ cl_pc' = [cl_pc EXCEPT ![c] =
                    IF ArgsRejected(cl_args[c]) THEN "raised"
                    ELSE IF CacheKey(cl_args[c]) \in DOMAIN clients[cl_args[c].getter]
                      THEN "return"
                    ELSE "acquire"]
    /\ UNCHANGED <<cl_args, clients, lock_holder, created, cl_result, foundry_available>>
    /\ UNCHANGED notClients

\* `with lock:` entered.
Acquire(c) ==
    /\ cl_pc[c] = "acquire"
    /\ lock_holder[cl_args[c].getter] = {}
    /\ lock_holder' = [lock_holder EXCEPT ![cl_args[c].getter] = {c}]
    /\ cl_pc' = [cl_pc EXCEPT ![c] = "locked"]
    /\ UNCHANGED <<cl_args, clients, created, cl_result, foundry_available>>
    /\ UNCHANGED notClients

SecondCheck_noRecheck(c) ==
    /\ cl_pc[c] = "locked"
    /\ created' = Append(created, [getter |-> cl_args[c].getter,
                                     key |-> CacheKey(cl_args[c]),
                                     client |-> Len(created) + 1])
    /\ clients' = [clients EXCEPT ![cl_args[c].getter] =
                        [k \in DOMAIN @ \cup {CacheKey(cl_args[c])} |->
                            IF k = CacheKey(cl_args[c]) THEN Len(created) + 1 ELSE @[k]]]
    /\ cl_pc' = [cl_pc EXCEPT ![c] = "release"]
    /\ UNCHANGED <<cl_args, lock_holder, cl_result, foundry_available>>
    /\ UNCHANGED notClients

\* Inside the lock: the second `if key not in clients`, and the construction
\* and the store of the client when the key is still absent.
SecondCheck(c) ==
    /\ cl_pc[c] = "locked"
    /\ LET g == cl_args[c].getter
           key == CacheKey(cl_args[c])
       IN  IF key \in DOMAIN clients[g]
             THEN /\ cl_pc' = [cl_pc EXCEPT ![c] = "release"]
                  /\ UNCHANGED <<clients, created>>
           ELSE IF g = "get_azure_anthropic_client" /\ ~foundry_available
             THEN /\ cl_pc' = [cl_pc EXCEPT ![c] = "release_raising"]
                  /\ UNCHANGED <<clients, created>>
           ELSE /\ created' = Append(created, [getter |-> g, key |-> key,
                                                client |-> Len(created) + 1])
                /\ clients' = [clients EXCEPT ![g] =
                                    [k \in DOMAIN @ \cup {key} |->
                                        IF k = key THEN Len(created) + 1 ELSE @[k]]]
                /\ cl_pc' = [cl_pc EXCEPT ![c] = "release"]
    /\ UNCHANGED <<cl_args, lock_holder, cl_result, foundry_available>>
    /\ UNCHANGED notClients

\* `with lock:` left, normally or by the ImportError.
Release(c) ==
    /\ cl_pc[c] \in {"release", "release_raising"}
    /\ lock_holder' = [lock_holder EXCEPT ![cl_args[c].getter] = {}]
    /\ cl_pc' = [cl_pc EXCEPT ![c] = IF cl_pc[c] = "release" THEN "return" ELSE "raised"]
    /\ UNCHANGED <<cl_args, clients, created, cl_result, foundry_available>>
    /\ UNCHANGED notClients

\* return clients[key]
ReturnClient(c) ==
    /\ cl_pc[c] = "return"
    /\ cl_result' = [cl_result EXCEPT ![c] = clients[cl_args[c].getter][CacheKey(cl_args[c])]]
    /\ cl_pc' = [cl_pc EXCEPT ![c] = "returned"]
    /\ UNCHANGED <<cl_args, clients, lock_holder, created, foundry_available>>
    /\ UNCHANGED notClients

NextClients ==
    \E c \in Callers :
        \/ FirstCheck(c)
        \/ Acquire(c)
        \/ SecondCheck(c)
        \/ Release(c)
        \/ ReturnClient(c)

(***************************************************************************)
(* llm_jury.py                                                             *)
(***************************************************************************)
\* None in the place of a score or of a consensus value, and an absent key.
Null == -1

Metrics == {"CC", "SA", "FC"}
JudgeNames == {"gpt-5.2", "DeepSeek-v3.2"}
DEFAULT_MAX_WORKERS == 3
RESULT_TIMEOUT == 120

\* Weights in hundredths.
CONSENSUS_WEIGHTS ==
    [CC |-> ("DeepSeek-v3.2" :> 60 @@ "gpt-5.2" :> 40),
     SA |-> ("gpt-5.2" :> 60 @@ "DeepSeek-v3.2" :> 40),
     FC |-> ("gpt-5.2" :> 50 @@ "DeepSeek-v3.2" :> 50)]

\* Scores a judge may answer with, in units of 1/10000: {"score": 0.0},
\* {"score": 0.9} and, outside the scale, {"score": 1.5}.
JudgeScores == {0, 9000, 15000}

\* What agent.query(eval_prompt) can do: return a JSON text (bare or inside a
\* code fence), return a JSON object without a score ({} or {"score": null}),
\* return a text that is no JSON, a JSON text that is no object ([0.9]), a JSON
\* object whose score is no number ({"score": "high"}), return None
\* (call_with_retry gave up), or raise.
QueryOutcomes ==
    [kind : {"json", "fenced"}, score : JudgeScores]
        \cup {[kind |-> "no_score", score |-> Null],
              [kind |-> "malformed", score |-> Null],
              [kind |-> "non_object", score |-> Null],
              [kind |-> "non_numeric", score |-> Null],
              [kind |-> "None", score |-> Null],
              [kind |-> "raises", score |-> Null]}

\* _parse_verdict: the parsed score; a parse error gives score None with an
\* error; for response_text = None the except block itself raises
\* (response_text[:200]).
_parse_verdict(response_text) ==
    CASE response_text.kind \in {"json", "fenced"} ->
            [score |-> response_text.score, has_error |-> FALSE, raises |-> FALSE]
      [] response_text.kind = "no_score" ->
            [score |-> Null, has_error |-> FALSE, raises |-> FALSE]
      [] response_text.kind \in {"malformed", "non_object", "non_numeric"} ->
            [score |-> Null, has_error |-> TRUE, raises |-> FALSE]
      [] OTHER ->
            [score |-> Null, has_error |-> TRUE, raises |-> TRUE]

\* One iteration of `for metric in ["CC", "SA", "FC"]`: the score stored for
\* the metric (None on an agent error, a raising parse or a null score).
MetricScore(outcome) ==
    IF outcome.kind = "raises" \/ _parse_verdict(outcome).raises
      THEN Null
      ELSE _parse_verdict(outcome).score

NextMetric_skipSA(m) ==
    CASE m = "CC" -> "FC"
      [] m = "SA" -> "FC"
      [] m = "FC" -> "finished"

NextMetric(m) ==
    CASE m = "CC" -> "SA"
      [] m = "SA" -> "FC"
      [] m = "FC" -> "finished"

FinalVerdict_errorOnTotalFailure(sc, errs) ==
    [CC |-> sc.CC, SA |-> sc.SA, FC |-> sc.FC, has_error |-> Len(errs) = 3]

\* final_verdict of _evaluate_with_agent.
FinalVerdict(sc, errs) ==
    [CC |-> sc.CC, SA |-> sc.SA, FC |-> sc.FC, has_error |-> errs # <<>>]

\* The verdict evaluate_response stores when future.result raises.
ExecutionFailedVerdict ==
    [CC |-> Null, SA |-> Null, FC |-> Null, has_error |-> TRUE]

RECURSIVE SumOver(_, _)
SumOver(S, f) ==
    IF S = {} THEN 0
    ELSE LET x == CHOOSE y \in S : TRUE IN f[x] + SumOver(S \ {x}, f)

\* round(n / d) for n >= 0, d > 0.
RoundDiv(n, d) == (2 * n + d) \div (2 * d)

RECURSIVE SqrtSearch(_, _, _)
SqrtSearch(lo, hi, k) ==
    IF lo >= hi THEN lo
    ELSE LET mid == (lo + hi + 1) \div 2
         IN  IF mid * mid <= k THEN SqrtSearch(mid, hi, k) ELSE SqrtSearch(lo, mid - 1, k)
\* floor of the square root (of a 32-bit integer)
ISqrt(k) == SqrtSearch(0, IF k < 46340 THEN k ELSE 46340, k)

\* The validity gate of _compute_consensus.
ValidJudges(verdicts) ==
    {j \in DOMAIN verdicts : ~(verdicts[j].has_error \/ verdicts[j].CC = Null)}

_weighted_mean_unnormalised(verdicts, metric, weights, valid_judges) ==
    LET contributors == {j \in DOMAIN weights :
                            /\ j \in valid_judges
                            /\ j \in DOMAIN verdicts
                            /\ verdicts[j][metric] # Null}
        weighted_sum == SumOver(contributors,
                                [j \in contributors |-> verdicts[j][metric] * weights[j]])
    IN  IF contributors = {} THEN Null ELSE RoundDiv(weighted_sum, 100)

_weighted_mean(verdicts, metric, weights, valid_judges) ==
    LET contributors == {j \in DOMAIN weights :
                            /\ j \in valid_judges
                            /\ j \in DOMAIN verdicts
                            /\ verdicts[j][metric] # Null}
        weighted_sum == SumOver(contributors,
                                [j \in contributors |-> verdicts[j][metric] * weights[j]])
        weight_sum == SumOver(contributors, weights)
    IN  IF weight_sum = 0 THEN Null ELSE RoundDiv(weighted_sum, weight_sum)

StdTimesN_aboutZero(verdicts, metric, valid_judges) ==
    LET n == Cardinality(valid_judges)
        xs == [j \in valid_judges |-> verdicts[j][metric]]
        sumsq == SumOver(valid_judges, [j \in valid_judges |-> xs[j] * xs[j]])
    IN  IF n > 1 THEN ISqrt(n * sumsq) ELSE 0

\* n * np.std(xs) for the scores of `metric` of the valid judges (n of them);
\* 0 when there are fewer than 2.
StdTimesN(verdicts, metric, valid_judges) ==
    LET n == Cardinality(valid_judges)
        xs == [j \in valid_judges |-> verdicts[j][metric]]
        sum == SumOver(valid_judges, xs)
        sumsq == SumOver(valid_judges, [j \in valid_judges |-> xs[j] * xs[j]])
    IN  IF n > 1 THEN ISqrt(n * sumsq - sum * sum) ELSE 0

AgreementTimes3N_singlePenalty(verdicts, valid_judges) ==
    LET n == Cardinality(valid_judges)
        total == StdTimesN(verdicts, "CC", valid_judges)
                    + StdTimesN(verdicts, "SA", valid_judges)
                    + StdTimesN(verdicts, "FC", valid_judges)
        raw == 3 * n * 10000 - total
        low == IF raw < 0 THEN 0 ELSE raw
    IN  IF low > 3 * n * 10000 THEN 3 * n * 10000 ELSE low

\* 3n * agreement_score before rounding, clamped to [0, 1]:
\* max(0, 1 - 2 * (cc_std + sa_std + fc_std) / 3), then min(1, .).
AgreementTimes3N(verdicts, valid_judges) ==
    LET n == Cardinality(valid_judges)
        total == StdTimesN(verdicts, "CC", valid_judges)
                    + StdTimesN(verdicts, "SA", valid_judges)
                    + StdTimesN(verdicts, "FC", valid_judges)
        raw == 3 * n * 10000 - 2 * total
        low == IF raw < 0 THEN 0 ELSE raw
    IN  IF low > 3 * n * 10000 THEN 3 * n * 10000 ELSE low

Recommendation_noSingleJudge(n, agreement3n) ==
    IF agreement3n * 100 > 85 * 3 * n * 10000 THEN "ROBUST - Unanimous jury"
    ELSE IF agreement3n * 100 > 65 * 3 * n * 10000
      THEN "MODERATE - Jury consensus with variation"
    ELSE "CAUTION - Jury disagreement (brittle response?)"

Recommendation(n, agreement3n) ==
    IF n = 1 THEN "SINGLE JUDGE - No consensus possible"
    ELSE IF agreement3n * 100 > 85 * 3 * n * 10000 THEN "ROBUST - Unanimous jury"
    ELSE IF agreement3n * 100 > 65 * 3 * n * 10000
      THEN "MODERATE - Jury consensus with variation"
    ELSE "CAUTION - Jury disagreement (brittle response?)"

NoValidJudges_zeroScores ==
    [CC |-> 0, SA |-> 0, FC |-> 0, agreement_score |-> 0,
     judge_variance_CC |-> Null, judge_variance_SA |-> Null, judge_variance_FC |-> Null,
     judge_count |-> 0, has_error |-> TRUE,
     recommendation |-> "FAILED - No valid judge results"]

\* The consensus returned when there is no valid judge.
NoValidJudges ==
    [CC |-> Null, SA |-> Null, FC |-> Null, agreement_score |-> 0,
     judge_variance_CC |-> Null, judge_variance_SA |-> Null, judge_variance_FC |-> Null,
     judge_count |-> 0, has_error |-> TRUE,
     recommendation |-> "FAILED - No valid judge results"]

\* The consensus evaluate_response builds when _compute_consensus raises.
ConsensusComputationError ==
    [CC |-> Null, SA |-> Null, FC |-> Null, agreement_score |-> Null,
     judge_variance_CC |-> Null, judge_variance_SA |-> Null, judge_variance_FC |-> Null,
     judge_count |-> Null, has_error |-> TRUE,
     recommendation |-> "FAILED - Consensus computation error"]

\* np.mean / np.std raise a TypeError on a list that holds None.
ConsensusRaises(verdicts) ==
    LET valid_judges == ValidJudges(verdicts)
    IN  \/ \E j \in valid_judges : verdicts[j].FC = Null
        \/ /\ Cardinality(valid_judges) > 1
           /\ \E j \in valid_judges : verdicts[j].SA = Null

_compute_consensus(verdicts) ==
    LET valid_judges == ValidJudges(verdicts)
        n == Cardinality(valid_judges)
        fc_sum == SumOver(valid_judges, [j \in valid_judges |-> verdicts[j].FC])
        agreement3n == AgreementTimes3N(verdicts, valid_judges)
    IN  IF n < 1 THEN NoValidJudges
        ELSE [CC |-> _weighted_mean(verdicts, "CC", CONSENSUS_WEIGHTS.CC, valid_judges),
              SA |-> _weighted_mean(verdicts, "SA", CONSENSUS_WEIGHTS.SA, valid_judges),
              FC |-> RoundDiv(fc_sum, n),
              agreement_score |-> RoundDiv(agreement3n, 3 * n),
              judge_variance_CC |-> RoundDiv(StdTimesN(verdicts, "CC", valid_judges), n),
              judge_variance_SA |-> RoundDiv(StdTimesN(verdicts, "SA", valid_judges), n),
              judge_variance_FC |-> RoundDiv(StdTimesN(verdicts, "FC", valid_judges), n),
              judge_count |-> n,
              has_error |-> FALSE,
              recommendation |-> Recommendation(n, agreement3n)]

\* The try/except around _compute_consensus in evaluate_response.
Consensus(verdicts) ==
    IF ConsensusRaises(verdicts) THEN ConsensusComputationError
    ELSE _compute_consensus(verdicts)

NoScores == [CC |-> Null, SA |-> Null, FC |-> Null]
NoConsensus ==
    [CC |-> Null, SA |-> Null, FC |-> Null, agreement_score |-> Null,
     judge_variance_CC |-> Null, judge_variance_SA |-> Null, judge_variance_FC |-> Null,
     judge_count |-> Null, has_error |-> FALSE, recommendation |-> "not computed"]

IdleJury ==
    /\ jury_pc = "idle"
    /\ judges = [j \in JudgeNames |-> "None"]
    /\ task = [j \in JudgeNames |-> "none"]
    /\ scores = [j \in JudgeNames |-> NoScores]
    /\ errors = [j \in JudgeNames |-> <<>>]
    /\ elapsed = [j \in JudgeNames |-> 0]
    /\ jury_verdicts = <<>>
    /\ verdict_order = <<>>
    /\ query_log = [j \in JudgeNames |-> <<>>]
    /\ consensus = NoConsensus

\* An LLMJury whose judges dict maps each name to an agent or to None,
\* at the call of evaluate_response.
StartJury ==
    /\ jury_pc = "dispatch"
    /\ judges \in [JudgeNames -> {"agent", "None"}]
    /\ task = [j \in JudgeNames |-> "none"]
    /\ scores = [j \in JudgeNames |-> NoScores]
    /\ errors = [j \in JudgeNames |-> <<>>]
    /\ elapsed = [j \in JudgeNames |-> 0]
    /\ jury_verdicts = <<>>
    /\ verdict_order = <<>>
    /\ query_log = [j \in JudgeNames |-> <<>>]
    /\ consensus = NoConsensus

Running == {j \in JudgeNames : task[j] \in Metrics}
Dispatched == {j \in JudgeNames : task[j] # "none"}

Dispatch_everyJudge ==
    /\ jury_pc = "dispatch"
    /\ task' = [j \in JudgeNames |-> "queued"]
    /\ jury_pc' = "collect"
    /\ UNCHANGED <<judges, scores, errors, elapsed, jury_verdicts, verdict_order, query_log, consensus>>
    /\ UNCHANGED notJury

\* The submit loop: one future per judge whose agent is not None.
Dispatch ==
    /\ jury_pc = "dispatch"
    /\ task' = [j \in JudgeNames |-> IF judges[j] = "None" THEN "none" ELSE "queued"]
    /\ jury_pc' = "collect"
    /\ UNCHANGED <<judges, scores, errors, elapsed, jury_verdicts, verdict_order, query_log, consensus>>
    /\ UNCHANGED notJury

\* A worker of the pool picks up a queued task.
StartTask(j) ==
    /\ task[j] = "queued"
    /\ Cardinality(Running) < DEFAULT_MAX_WORKERS
    /\ task' = [task EXCEPT ![j] = "CC"]
    /\ UNCHANGED <<jury_pc, judges, scores, errors, elapsed, jury_verdicts, verdict_order, query_log,
                   consensus>>
    /\ UNCHANGED notJury

QueryMetric_abortOnFailure(j) ==
    /\ task[j] \in Metrics
    /\ \E outcome \in QueryOutcomes :
        LET m == task[j]
            score == MetricScore(outcome)
        IN  /\ scores' = [scores EXCEPT ![j][m] = score]
            /\ errors' = [errors EXCEPT ![j] = IF score = Null THEN Append(@, m) ELSE @]
            /\ task' = [task EXCEPT ![j] = IF score = Null THEN "finished" ELSE NextMetric(m)]
    /\ query_log' = [query_log EXCEPT ![j] = Append(@, task[j])]
    /\ UNCHANGED <<jury_pc, judges, elapsed, jury_verdicts, verdict_order, consensus>>
    /\ UNCHANGED notJury

\* One metric call of _evaluate_with_agent: build the prompt, query, parse.
QueryMetric(j) ==
    /\ task[j] \in Metrics
    /\ \E outcome \in QueryOutcomes :
        LET m == task[j]
            score == MetricScore(outcome)
        IN  /\ scores' = [scores EXCEPT ![j][m] = score]
            /\ errors' = [errors EXCEPT ![j] = IF score = Null THEN Append(@, m) ELSE @]
            /\ task' = [task EXCEPT ![j] = NextMetric(m)]
    /\ query_log' = [query_log EXCEPT ![j] = Append(@, task[j])]
    /\ UNCHANGED <<jury_pc, judges, elapsed, jury_verdicts, verdict_order, consensus>>
    /\ UNCHANGED notJury

\* Time passes while a judge's task is running.
Tick(j) ==
    /\ task[j] \in Metrics
    /\ elapsed[j] < MaxTicks * TickSeconds
    /\ elapsed' = [elapsed EXCEPT ![j] = @ + TickSeconds]
    /\ UNCHANGED <<jury_pc, judges, task, scores, errors, jury_verdicts, verdict_order, query_log,
                   consensus>>
    /\ UNCHANGED notJury

\* Seconds future.result(timeout=120) waits: as_completed hands over only
\* futures that are done, so result() returns at once.
ResultWait(j) == 0

\* A merge keyed by the position of arrival: the k-th completed verdict is
\* stored under the k-th judge name.
Collect_keyedByArrival(j) ==
    /\ jury_pc = "collect"
    /\ task[j] = "finished"
    /\ \A i \in 1..Len(verdict_order) : verdict_order[i] # j
    /\ LET roster == <<"DeepSeek-v3.2", "gpt-5.2">>
           slot == IF Cardinality(Dispatched) = 1 THEN j ELSE roster[Len(verdict_order) + 1]
       IN  jury_verdicts' = (slot :> FinalVerdict(scores[j], errors[j])) @@ jury_verdicts
    /\ verdict_order' = Append(verdict_order, j)
    /\ UNCHANGED <<jury_pc, judges, task, scores, errors, elapsed, query_log, consensus>>
    /\ UNCHANGED notJury

\* One iteration of `for future in as_completed(...)`.
Collect(j) ==
    /\ jury_pc = "collect"
    /\ task[j] = "finished"
    /\ j \notin DOMAIN jury_verdicts
    /\ LET verdict == IF ResultWait(j) > RESULT_TIMEOUT
                        THEN ExecutionFailedVerdict
                        ELSE FinalVerdict(scores[j], errors[j])
       IN  jury_verdicts' = (j :> verdict) @@ jury_verdicts
    /\ verdict_order' = Append(verdict_order, j)
    /\ UNCHANGED <<jury_pc, judges, task, scores, errors, elapsed, query_log, consensus>>
    /\ UNCHANGED notJury

\* as_completed is exhausted: aggregate and return.
Aggregate ==
    /\ jury_pc = "collect"
    /\ DOMAIN jury_verdicts = Dispatched
    /\ consensus' = Consensus(jury_verdicts)
    /\ jury_pc' = "returned"
    /\ UNCHANGED <<judges, task, scores, errors, elapsed, jury_verdicts, verdict_order, query_log>>
    /\ UNCHANGED notJury

NextJury ==
    \/ Dispatch
    \/ \E j \in JudgeNames : StartTask(j) \/ QueryMetric(j) \/ Tick(j) \/ Collect(j)
    \/ Aggregate

NextRetry == FuncReturns \/ FuncRaises \/ SleepReturns

(***************************************************************************)
(* agent.py / llm_jury.py: agent.query (call_with_retry), _parse_verdict   *)
(***************************************************************************)
\* The texts the API call inside agent.query can return.
ReturnedTexts == {o \in QueryOutcomes : o.kind \notin {"None", "raises"}}
\* agent.query returns None when call_with_retry does.
NoneResponse == [kind |-> "None", score |-> Null]

NoResponse == [kind |-> "not returned", score |-> Null]
NotParsed == [score |-> Null, has_error |-> FALSE, raises |-> FALSE]

IdleParse ==
    /\ parse_pc = "idle"
    /\ agent_response = NoResponse
    /\ parsed = NotParsed

StartParse ==
    /\ parse_pc = "waiting"
    /\ agent_response = NoResponse
    /\ parsed = NotParsed

\* _evaluate_with_agent, steps 2 and 3: agent.query has returned what
\* call_with_retry returned, and _parse_verdict is applied to it.
ParseResponse ==
    /\ parse_pc = "waiting"
    /\ rc_pc = "done"
    /\ \E text \in (IF rc_result = None THEN {NoneResponse} ELSE ReturnedTexts) :
        /\ agent_response' = text
        /\ parsed' = IF _parse_verdict(text).raises THEN parsed ELSE _parse_verdict(text)
        /\ parse_pc' = IF _parse_verdict(text).raises THEN "raised" ELSE "parsed"
    /\ UNCHANGED notParse

NextQuery == FuncReturns \/ FuncRaises \/ SleepReturns \/ ParseResponse

(***************************************************************************)
(* llm_jury.py: _compute_consensus for every judges dict LLMJury accepts   *)
(***************************************************************************)
\* A judge name that is no key of CONSENSUS_WEIGHTS: the constructor only
\* warns about missing expected judges (verification_experiment.py builds an
\* LLMJury with such names).
UnlistedJudge == "gpt-5.1"
AcceptedJudgeNames == JudgeNames \cup {UnlistedJudge}

\* The verdicts _evaluate_with_agent can return for the scores 0.0, 1.0 and 1.5
\* (the error field is set exactly when a metric failed).
AggregatorScores == {0, 10000, 15000}
AggregatorVerdicts ==
    {FinalVerdict([CC |-> cc, SA |-> sa, FC |-> fc],
                  IF Null \in {cc, sa, fc} THEN <<"failed">> ELSE <<>>) :
        cc \in AggregatorScores \cup {Null},
        sa \in AggregatorScores \cup {Null},
        fc \in AggregatorScores \cup {Null}}

\* Complete verdicts of judges that grade on a finer scale: FC 0.0 / 0.4 / 0.45
\* and SA 0.4 / 0.4 / 0.45.
GradedVerdicts ==
    {FinalVerdict([CC |-> 10000, SA |-> 4000, FC |-> 0], <<>>),
     FinalVerdict([CC |-> 10000, SA |-> 4000, FC |-> 4000], <<>>),
     FinalVerdict([CC |-> 10000, SA |-> 4500, FC |-> 4500], <<>>)}

IdleAggregator ==
    /\ agg_pc = "idle"
    /\ agg_verdicts = <<>>
    /\ agg_result = NoConsensus

\* jury_verdicts once every dispatched judge has been collected.
StartAggregator ==
    /\ agg_pc = "input"
    /\ agg_verdicts \in UNION {[D -> AggregatorVerdicts \cup GradedVerdicts] :
                                    D \in SUBSET AcceptedJudgeNames}
    /\ agg_result = NoConsensus

\* evaluate_response, lines 184-197: compute the consensus of the verdicts.
ComputeConsensus ==
    /\ agg_pc = "input"
    /\ agg_result' = Consensus(agg_verdicts)
    /\ agg_pc' = "computed"
    /\ UNCHANGED agg_verdicts
    /\ UNCHANGED notAggregator

NextAggregator == ComputeConsensus

(***************************************************************************)
(* llm_jury.py: the word limit and the prompt                              *)
(***************************************************************************)
CompressionLevels == {0, 10, 29, 30, 45, 59, 60, 100}
ExplicitLimits == {Null, 10}

\* `x or default` and `if x:` see None and 0 alike.
Falsy(x) == x = Null \/ x = 0

InferWordLimit_inclusiveBands(level, given) ==
    IF given # Null THEN given
    ELSE IF level <= 30 THEN 20
    ELSE IF level <= 60 THEN 50
    ELSE Null

\* evaluate_response: the limit inferred when the caller gives none.
InferWordLimit(level, given) ==
    IF given # Null THEN given
    ELSE IF level < 30 THEN 20
    ELSE IF level < 60 THEN 50
    ELSE Null

\* _build_evaluation_prompt: the limit of the compression band.
BandWordLimit(level, limit) ==
    IF level < 30 THEN (IF Falsy(limit) THEN 20 ELSE limit)
    ELSE IF level < 60 THEN (IF Falsy(limit) THEN 50 ELSE limit)
    ELSE Null

Band(level) ==
    IF level < 30 THEN "EXTREME"
    ELSE IF level < 60 THEN "MODERATE"
    ELSE "MINIMAL"

\* violation_note: "times" is the note "Response is N.Nx the expected length"
\* (value: the ratio in tenths), "exceeds" the note "exceeds expected length
\* by P%" (value: the percentage), "appropriate" the note "Response length is
\* appropriate", "no_limit" the note "No strict length limit".
ViolationNote(words, limit) ==
    IF ~Falsy(limit)
      THEN IF words > 2 * limit
             THEN [kind |-> "times", value |-> RoundDiv(10 * words, limit)]
           ELSE IF 2 * words > 3 * limit
             THEN [kind |-> "exceeds", value |-> RoundDiv(100 * (words - limit), limit)]
           ELSE [kind |-> "appropriate", value |-> Null]
      ELSE [kind |-> "no_limit", value |-> Null]

RubricBlocks_allAxes(metric) ==
    {"cc_instructions", "sa_instructions", "fc_instructions"}

\* The rubric blocks put into evaluation_instructions.
RubricBlocks(metric) ==
    CASE metric = "CC" -> {"cc_instructions"}
      [] metric = "SA" -> {"sa_instructions"}
      [] metric = "FC" -> {"fc_instructions"}
      [] OTHER -> {"cc_instructions", "sa_instructions", "fc_instructions"}

FinalInstruction(metric) ==
    CASE metric = "CC" -> "Evaluate ONLY the Constraint Compliance (CC) score."
      [] metric = "SA" -> "Evaluate ONLY the Semantic Accuracy (SA) score."
      [] metric = "FC" -> "Evaluate ONLY the Functional Completeness (FC) score."
      [] OTHER -> "Evaluate the CC, SA, and FC scores."

_build_evaluation_prompt(words, level, limit, metric) ==
    [band |-> Band(level),
     word_limit |-> BandWordLimit(level, limit),
     violation_note |-> ViolationNote(words, BandWordLimit(level, limit)),
     rubrics |-> RubricBlocks(metric),
     final_instruction |-> FinalInstruction(metric)]

NoPrompt ==
    [band |-> "none", word_limit |-> Null,
     violation_note |-> [kind |-> "none", value |-> Null],
     rubrics |-> {}, final_instruction |-> "none"]

IdlePrompt ==
    /\ prompt_pc = "idle"
    /\ compression_level = 0
    /\ response_word_count = 0
    /\ expected_word_limit = Null
    /\ metric_to_evaluate = "all"
    /\ prompt = NoPrompt

StartPrompt ==
    /\ prompt_pc = "input"
    /\ compression_level \in CompressionLevels
    /\ response_word_count \in 0..MaxResponseWords
    /\ expected_word_limit \in ExplicitLimits
    /\ metric_to_evaluate \in Metrics \cup {"all"}
    /\ prompt = NoPrompt

\* evaluate_response infers the limit, _evaluate_with_agent renders the
\* prompt of one metric.
RenderPrompt ==
    /\ prompt_pc = "input"
    /\ prompt' = _build_evaluation_prompt(
                    response_word_count, compression_level,
                    InferWordLimit(compression_level, expected_word_limit),
                    metric_to_evaluate)
    /\ prompt_pc' = "rendered"
    /\ UNCHANGED <<compression_level, response_word_count, expected_word_limit,
                   metric_to_evaluate>>
    /\ UNCHANGED notPrompt

NextPrompt == RenderPrompt

(***************************************************************************)
(* experiment_jury.py                                                      *)
(***************************************************************************)
\* loaded_concept.corpus: the compression levels of its steps.
Corpus == [i \in 1..NumLevels |-> i]

\* The judge verdicts evaluate_response can hand back for one level.
ExperimentScores == {0, 10000}
AgentVerdicts ==
    {[CC |-> cc, SA |-> sa, FC |-> fc, has_error |-> Null \in {cc, sa, fc}] :
        cc \in ExperimentScores \cup {Null},
        sa \in ExperimentScores \cup {Null},
        fc \in ExperimentScores \cup {Null}}
JuryVerdictMaps == UNION {[D -> AgentVerdicts] : D \in SUBSET JudgeNames}

\* `consensus.get("CC") or consensus.get("FAR")`: a CC of None or 0.0 gives
\* way to the FAR key, which the consensus does not have.
OrLegacyKey(value) == IF Falsy(value) THEN Null ELSE value

HasOverallScore(cons) ==
    OrLegacyKey(cons.CC) # Null /\ OrLegacyKey(cons.SA) # Null

\* performance_entry["score"]
EntryScore(cons) ==
    IF HasOverallScore(cons)
      THEN RoundDiv(4 * cons.CC + 4 * cons.SA + 2 * cons.FC, 10)
      ELSE 0

RECURSIVE SumSeq(_)
SumSeq(q) == IF q = <<>> THEN 0 ELSE Head(q) + SumSeq(Tail(q))

\* [q[i] for i in range(len(q)) if i in keep], in the order of q
SelectIndexed(q, keep) ==
    LET F[i \in 0..Len(q)] ==
            IF i = 0 THEN <<>>
            ELSE IF i \in keep THEN Append(F[i - 1], q[i]) ELSE F[i - 1]
    IN  F[Len(q)]

SetMax(S) == CHOOSE x \in S : \A y \in S : y <= x
SetMin(S) == CHOOSE x \in S : \A y \in S : x <= y

EmptyAnalysis ==
    [CSI |-> 0, mean_score |-> 0, mean_agreement |-> 0, decay_direction |-> "N/A",
     has_error |-> TRUE]

DecayDirection(scs) ==
    LET n == Len(scs)
        h == n \div 2
        early == SumSeq(SubSeq(scs, 1, h))
        late == SumSeq(SubSeq(scs, h + 1, n))
    IN  IF n >= 2
          THEN IF early * (n - h) > late * h + 500 * h * (n - h)
                 THEN "Graceful (expected)"
               ELSE IF early * (n - h) < late * h - 500 * h * (n - h)
                 THEN "Improvement with compression"
               ELSE "Stable"
          ELSE "N/A"

_analyze_jury_results(perf) ==
    IF perf = <<>> THEN EmptyAnalysis
    ELSE
    LET scs == [i \in 1..Len(perf) |-> perf[i].score]
        levels == {perf[i].compression_level : i \in 1..Len(perf)}
        all_agreements == [i \in 1..Len(perf) |-> perf[i].consensus.agreement_score]
        agreements == SelectIndexed(all_agreements, {i \in 1..Len(perf) : all_agreements[i] > 0})
        high == SelectIndexed(scs, {i \in 1..Len(perf) :
                                        2 * perf[i].compression_level >= SetMax(levels)})
        low == SelectIndexed(scs, {i \in 1..Len(perf) :
                                       4 * perf[i].compression_level < 3 * SetMin(levels)})
    IN  [CSI |-> IF high # <<>> /\ low # <<>>
                   THEN RoundDiv(SumSeq(high), Len(high)) - RoundDiv(SumSeq(low), Len(low))
                   ELSE 0,
         mean_score |-> RoundDiv(SumSeq(scs), Len(scs)),
         mean_agreement |-> IF agreements # <<>>
                              THEN RoundDiv(SumSeq(agreements), Len(agreements))
                              ELSE 0,
         decay_direction |-> DecayDirection(scs),
         has_error |-> FALSE]

NoAnalysis ==
    [CSI |-> Null, mean_score |-> Null, mean_agreement |-> Null,
     decay_direction |-> "not computed", has_error |-> FALSE]

IdleExperiment ==
    /\ exp_pc = "idle"
    /\ step = 0
    /\ performance = <<>>
    /\ failed_levels = <<>>
    /\ analysis = NoAnalysis

StartExperiment ==
    /\ exp_pc = "loop"
    /\ step = 1
    /\ performance = <<>>
    /\ failed_levels = <<>>
    /\ analysis = NoAnalysis

\* The subject model gives no response, or an "Error:" text: the level is
\* logged as failed and skipped.
SubjectFails ==
    /\ exp_pc = "loop"
    /\ step <= NumLevels
    /\ failed_levels' = Append(failed_levels, Corpus[step])
    /\ step' = step + 1
    /\ UNCHANGED <<exp_pc, performance, analysis>>
    /\ UNCHANGED notExperiment

\* The subject model answers, the jury evaluates the response and the
\* performance entry of the level is appended. Multiplying a None FC raises a
\* TypeError that nothing catches.
EvaluateLevel ==
    /\ exp_pc = "loop"
    /\ step <= NumLevels
    /\ \E verdicts \in JuryVerdictMaps :
        LET cons == Consensus(verdicts) IN
        IF HasOverallScore(cons) /\ cons.FC = Null
          THEN /\ exp_pc' = "crashed"
               /\ UNCHANGED <<step, performance>>
          ELSE /\ performance' = Append(performance,
                                    [compression_level |-> Corpus[step],
                                     score |-> EntryScore(cons),
                                     consensus |-> cons])
               /\ step' = step + 1
               /\ exp_pc' = exp_pc
    /\ UNCHANGED <<failed_levels, analysis>>
    /\ UNCHANGED notExperiment

\* The corpus is exhausted: _analyze_jury_results, then return.
AnalyzeResults ==
    /\ exp_pc = "loop"
    /\ step > NumLevels
    /\ analysis' = _analyze_jury_results(performance)
    /\ exp_pc' = "returned"
    /\ UNCHANGED <<step, performance, failed_levels>>
    /\ UNCHANGED notExperiment

NextExperiment == SubjectFails \/ EvaluateLevel \/ AnalyzeResults

(***************************************************************************)
(* Specifications: one per component, the other components idle           *)
(***************************************************************************)
InitRetry == StartRetry /\ IdleJury /\ IdlePrompt /\ IdleExperiment /\ IdleAggregator /\ IdleParse /\ IdleBackoff /\ IdleClients

SpecRetry == InitRetry /\ [][NextRetry]_vars

InitJury == IdleRetry /\ StartJury /\ IdlePrompt /\ IdleExperiment /\ IdleAggregator /\ IdleParse /\ IdleBackoff /\ IdleClients

SpecJury == InitJury /\ [][NextJury]_vars

InitPrompt == IdleRetry /\ IdleJury /\ StartPrompt /\ IdleExperiment /\ IdleAggregator /\ IdleParse /\ IdleBackoff /\ IdleClients

SpecPrompt == InitPrompt /\ [][NextPrompt]_vars

InitExperiment == IdleRetry /\ IdleJury /\ IdlePrompt /\ StartExperiment /\ IdleAggregator /\ IdleParse /\ IdleBackoff /\ IdleClients

SpecExperiment == InitExperiment /\ [][NextExperiment]_vars

InitAggregator ==
    IdleRetry /\ IdleJury /\ IdlePrompt /\ IdleExperiment /\ StartAggregator /\ IdleParse /\ IdleBackoff /\ IdleClients

SpecAggregator == InitAggregator /\ [][NextAggregator]_vars

InitQuery ==
    StartRetry /\ IdleJury /\ IdlePrompt /\ IdleExperiment /\ IdleAggregator /\ StartParse
        /\ IdleBackoff /\ IdleClients

SpecQuery == InitQuery /\ [][NextQuery]_vars

InitBackoff ==
    IdleRetry /\ IdleJury /\ IdlePrompt /\ IdleExperiment /\ IdleAggregator /\ IdleParse
        /\ StartBackoff /\ IdleClients

SpecBackoff == InitBackoff /\ [][NextBackoff]_vars

InitClients ==
    IdleRetry /\ IdleJury /\ IdlePrompt /\ IdleExperiment /\ IdleAggregator /\ IdleParse
        /\ IdleBackoff /\ StartClients

SpecClients == InitClients /\ [][NextClients]_vars

(***************************************************************************)
(* Claims about call_with_retry (checked under SpecRetry)                  *)
(***************************************************************************)
RetryableTypes == {TIMEOUT, RATE_LIMIT, SERVICE_ERROR}

\* Every invocation so far has failed, so the last entry of error_log is the
\* failure of the most recent invocation.
AllAttemptsFailed == error_log # <<>> /\ invocations = Len(error_log)
LastErrorType == error_log[Len(error_log)].error_type

Has401(e) == "401" \in Lower(e.msg)
\* A pattern that classify_error tests before the authentication patterns.
HasEarlierPattern(e) ==
    \/ AnyIn({"timeout", "timed out", "deadline", "408"}, Lower(e.msg))
    \/ AnyIn({"timeout", "deadline"}, Lower(e.type))
    \/ AnyIn({"rate limit", "429", "too many requests", "quota"}, Lower(e.msg))
    \/ AnyIn({"503", "502", "500", "overloaded", "unavailable", "busy"}, Lower(e.msg))

\* C7 (as stated): an operation whose first failure has a message containing
\* "401" is invoked exactly once: the call is over after that invocation and
\* returns None, whatever else the message contains and for every max_retries.
C7_Never401Retried ==
    (invocations = 1 /\ last_exception # NoException /\ Has401(last_exception))
        => (rc_pc = "done" /\ rc_result = None)

\* C7 (amended): an operation whose first failure has a message containing
\* "401" and none of the timeout, rate-limit or service-error patterns that
\* classify_error tests first (in the message or the type name) is invoked
\* exactly once and call_with_retry returns None, for every max_retries.
C7_Auth401NotRetried ==
    (invocations = 1 /\ last_exception # NoException /\ Has401(last_exception)
        /\ ~HasEarlierPattern(last_exception))
        => (rc_pc = "done" /\ rc_result = None /\ sleeps = 0)

C7_Witness ==
    /\ rc_pc = "done" /\ invocations = 1 /\ max_retries >= 1
    /\ last_exception # NoException
    /\ Has401(last_exception) /\ ~HasEarlierPattern(last_exception)
    /\ rc_result = None

\* C8: when every attempt failed with a retryable-class error (timeout,
\* rate_limit, service_error) and the call is over, the operation was invoked
\* exactly max_retries + 1 times and the call returned None.
C8_RetryableExhausts ==
    (rc_pc = "done" /\ AllAttemptsFailed
        /\ \A i \in 1..Len(error_log) : error_log[i].error_type \in RetryableTypes)
        => (invocations = max_retries + 1 /\ rc_result = None)

C8_Witness ==
    /\ rc_pc = "done" /\ AllAttemptsFailed /\ max_retries >= 2
    /\ \A i \in 1..Len(error_log) : error_log[i].error_type = RATE_LIMIT
    /\ "429" \in last_exception.msg
    /\ invocations = max_retries + 1

\* C9 (as stated): the first failure of a call that is classified `other`,
\* with retries left (attempt index < max_retries), is followed by a further
\* attempt, also when earlier attempts failed with retryable errors: the call
\* does not end on it.
C9_FirstOtherIsRetried ==
    (AllAttemptsFailed /\ LastErrorType = OTHER_
        /\ (\A i \in 1..(Len(error_log) - 1) : error_log[i].error_type # OTHER_)
        /\ Len(error_log) - 1 < max_retries)
        => rc_pc # "done"

\* C10: an attempt that fails with an error classified authentication or
\* invalid_request ends the call at once at any attempt index: the call is
\* done with None, and no sleep follows that attempt.
C10_NonRetryableEndsCall ==
    (AllAttemptsFailed /\ LastErrorType \in {AUTHENTICATION, INVALID_REQUEST})
        => (rc_pc = "done" /\ rc_result = None /\ sleeps = invocations - 1)

C10_Witness ==
    /\ AllAttemptsFailed /\ LastErrorType = INVALID_REQUEST
    /\ Len(error_log) >= 2 /\ Len(error_log) - 1 < max_retries
    /\ rc_pc = "done" /\ sleeps = invocations - 1

\* C29: the operation is invoked at most max_retries + 1 times; a sleep
\* happens only between two invocations, so a finished call has slept
\* invocations - 1 times and not after its final attempt; with max_retries = 0
\* there is one invocation and no sleep whatever the error; and the callback
\* has been called once per failed attempt, with the attempt numbers 1, 2, ...
\* in order, the attempt that ends the call included.
C29_InvocationsSleepsAndCallbacks ==
    /\ invocations <= max_retries + 1
    /\ rc_pc = "sleep" => (sleeps = invocations - 1 /\ invocations <= max_retries)
    /\ rc_pc = "try" => sleeps = invocations
    /\ rc_pc = "done" => (invocations >= 1 /\ sleeps = invocations - 1)
    /\ (rc_pc = "done" /\ max_retries = 0) => (invocations = 1 /\ sleeps = 0)
    /\ rc_pc \in {"try", "sleep"} => Len(error_log) = invocations
    /\ rc_pc = "done" => Len(error_log) \in {invocations - 1, invocations}
    /\ (rc_pc = "done" /\ rc_result # None) => Len(error_log) = invocations - 1
    /\ \A i \in 1..Len(error_log) : error_log[i].attempt = i

\* Four failed attempts of a call with max_retries = 3: three sleeps, four
\* callbacks, the last one for the attempt that exhausted the retries.
C29_Witness ==
    /\ rc_pc = "done" /\ max_retries = 3
    /\ invocations = 4 /\ sleeps = 3
    /\ Len(error_log) = 4 /\ error_log[4].attempt = 4
    /\ rc_result = None

\* C30 (as stated): once execute has returned, failed is true exactly when
\* func never returned normally; after a normal return, a return of None
\* included, failed is false and attempts is the number of failed attempts
\* before the success.
C30_FailedIffNeverReturned ==
    rc_pc = "done" =>
        /\ failed <=> AllAttemptsFailed
        /\ ~AllAttemptsFailed => attempts = invocations - 1

(***************************************************************************)
(* Claims about LLMJury.evaluate_response (checked under SpecJury)         *)
(***************************************************************************)
JudgesWithCC == {j \in DOMAIN jury_verdicts : jury_verdicts[j].CC # Null}

\* C1 (as stated): a judge counts as valid if and only if its verdict has a
\* non-null CC: judge_count of the returned consensus is the number of
\* collected verdicts with a non-null CC, also when SA or FC of such a
\* verdict is null.
C1_ValidIffCCPresent ==
    jury_pc = "returned" => consensus.judge_count = Cardinality(JudgesWithCC)

\* C2: if no collected verdict has a non-null CC, the consensus has CC, SA and
\* FC null, agreement_score 0, judge_count 0 and an error marker.
C2_NoValidJudgeFails ==
    (jury_pc = "returned" /\ JudgesWithCC = {})
        => /\ consensus.CC = Null /\ consensus.SA = Null /\ consensus.FC = Null
           /\ consensus.agreement_score = 0
           /\ consensus.judge_count = 0
           /\ consensus.has_error

C2_Witness ==
    /\ jury_pc = "returned"
    /\ DOMAIN jury_verdicts = JudgeNames
    /\ JudgesWithCC = {}
    /\ \E j \in JudgeNames : jury_verdicts[j].SA = 9000 /\ jury_verdicts[j].FC = 0
    /\ consensus.has_error /\ consensus.judge_count = 0 /\ consensus.SA = Null

\* C3 (as stated): the returned consensus has an error marker if and only if
\* no judge produced a non-null CC.
C3_ErrorOnlyOnTotalFailure ==
    jury_pc = "returned" => (consensus.has_error <=> JudgesWithCC = {})

\* C5 (as stated): when evaluate_response has returned, a judge whose task ran
\* longer than the 120-second ceiling is recorded as failed: CC, SA and FC
\* null, with an error.
C5_OverrunRecordedAsFailed ==
    jury_pc = "returned" =>
        \A j \in DOMAIN jury_verdicts :
            elapsed[j] > RESULT_TIMEOUT => jury_verdicts[j] = ExecutionFailedVerdict

\* C12: when exactly one collected judge is valid (the other failed on every
\* call, or was not dispatched), the returned consensus CC, SA and FC are that
\* judge's own scores, judge_count is 1 and the recommendation is the
\* single-judge one.
C12_SingleValidJudge ==
    jury_pc = "returned" =>
        \A a \in JudgeNames :
            ValidJudges(jury_verdicts) = {a} =>
                /\ consensus.CC = jury_verdicts[a].CC
                /\ consensus.SA = jury_verdicts[a].SA
                /\ consensus.FC = jury_verdicts[a].FC
                /\ consensus.judge_count = 1
                /\ consensus.recommendation = "SINGLE JUDGE - No consensus possible"

\* Two configured judges: gpt-5.2 answers 0.9 for every metric, every call of
\* DeepSeek-v3.2 fails.
C12_Witness ==
    /\ jury_pc = "returned"
    /\ judges = [j \in JudgeNames |-> "agent"]
    /\ jury_verdicts["gpt-5.2"] = [CC |-> 9000, SA |-> 9000, FC |-> 9000, has_error |-> FALSE]
    /\ errors["DeepSeek-v3.2"] = <<"CC", "SA", "FC">>
    /\ jury_verdicts["DeepSeek-v3.2"] = ExecutionFailedVerdict
    /\ consensus.CC = 9000 /\ consensus.SA = 9000 /\ consensus.FC = 9000
    /\ consensus.judge_count = 1

(***************************************************************************)
(* Claims about run_experiment_with_jury (checked under SpecExperiment)    *)
(***************************************************************************)
\* C4 (as stated): a compression level whose consensus CC or SA is null is
\* given no numeric score (neither 0.0 nor any other number).
C4_FailedConsensusNotScored ==
    \A i \in 1..Len(performance) :
        (performance[i].consensus.CC = Null \/ performance[i].consensus.SA = Null)
            => performance[i].score = Null

\* C26 (as stated): every performance entry whose consensus CC and SA are
\* both non-null has score = 0.4 * CC + 0.4 * SA + 0.2 * FC, a consensus CC or
\* SA of exactly 0.0 included.
C26_ScoredConsensusUsesFormula ==
    \A i \in 1..Len(performance) :
        LET cons == performance[i].consensus IN
        (cons.CC # Null /\ cons.SA # Null /\ cons.FC # Null)
            => performance[i].score = RoundDiv(4 * cons.CC + 4 * cons.SA + 2 * cons.FC, 10)

(***************************************************************************)
(* Claims about the prompt builder (checked under SpecPrompt)              *)
(***************************************************************************)
\* C6 (as stated): with a word limit L, the violation note is the compliant
\* note when words / L < 1.5, the minor note ("exceeds expected length by")
\* when 1.5 <= words / L < 2, and the major note ("N.Nx the expected length")
\* when words / L >= 2.
C6_LengthClassification ==
    (prompt_pc = "rendered" /\ prompt.word_limit # Null)
        => prompt.violation_note.kind =
              (IF 2 * response_word_count < 3 * prompt.word_limit THEN "appropriate"
               ELSE IF response_word_count < 2 * prompt.word_limit THEN "exceeds"
               ELSE "times")

\* C15: the prompt rendered for one of the metrics CC, SA, FC holds the rubric
\* block of that metric and neither of the other two blocks.
C15_AxisIsolation ==
    (prompt_pc = "rendered" /\ metric_to_evaluate \in Metrics) =>
        /\ ("cc_instructions" \in prompt.rubrics) <=> (metric_to_evaluate = "CC")
        /\ ("sa_instructions" \in prompt.rubrics) <=> (metric_to_evaluate = "SA")
        /\ ("fc_instructions" \in prompt.rubrics) <=> (metric_to_evaluate = "FC")

\* The SA prompt of a response that is far over its word limit.
C15_Witness ==
    /\ prompt_pc = "rendered"
    /\ metric_to_evaluate = "SA"
    /\ prompt.violation_note.kind = "times"
    /\ prompt.rubrics = {"sa_instructions"}
    /\ prompt.final_instruction = "Evaluate ONLY the Semantic Accuracy (SA) score."

\* The word limit the claim gives to a compression band.
LimitOfBand(level) ==
    IF level < 30 THEN 20 ELSE IF level < 60 THEN 50 ELSE Null

\* The violation note is the one of the word limit L for this response.
NoteIsAgainst(L) ==
    IF L = Null THEN prompt.violation_note.kind = "no_limit"
    ELSE /\ prompt.violation_note.kind # "no_limit"
         /\ prompt.violation_note.kind = "times" <=> response_word_count > 2 * L
         /\ prompt.violation_note.kind = "appropriate" <=> 2 * response_word_count <= 3 * L

\* C25 (as stated): the word limit used for the violation note is 20 when
\* compression_level < 0.3, 50 when 0.3 <= compression_level < 0.6, and none
\* when compression_level >= 0.6.
C25_LimitFollowsBand ==
    prompt_pc = "rendered" =>
        /\ prompt.word_limit = LimitOfBand(compression_level)
        /\ NoteIsAgainst(LimitOfBand(compression_level))

\* C25 (amended): the limit follows the band when the caller of
\* evaluate_response gives no expected_word_limit; a limit the caller gives
\* is used in place of 20 and 50 below 0.6 and is dropped from 0.6 on.
C25_LimitFollowsBandUnlessGiven ==
    prompt_pc = "rendered" =>
        LET L == IF compression_level >= 60 \/ Falsy(expected_word_limit)
                   THEN LimitOfBand(compression_level)
                   ELSE expected_word_limit
        IN  /\ prompt.word_limit = L
            /\ NoteIsAgainst(L)

\* compression_level 0.3 with no limit given and a 101-word response: the
\* note is the one of more than twice 50 words.
C25_Witness ==
    /\ prompt_pc = "rendered"
    /\ compression_level = 30
    /\ expected_word_limit = Null
    /\ response_word_count = 101
    /\ prompt.word_limit = 50
    /\ prompt.violation_note.kind = "times"

(***************************************************************************)
(* Claims about the judge verdicts (checked under SpecJury)                *)
(***************************************************************************)
\* The step records the failure of a metric call or parse of judge j.
FailureRecorded(j) == errors'[j] # errors[j]

\* C16: a failed call or parse of one metric of a judge does not end that
\* judge's evaluation (the next metric is evaluated), leaves the scores the
\* judge has for its other metrics and everything of every other judge as they
\* are, and a score once parsed is never lost; each collected verdict carries
\* exactly the scores of its own judge.
C16_FailureIsolation ==
    /\ [](\A j \in DOMAIN jury_verdicts :
            jury_verdicts[j] = FinalVerdict(scores[j], errors[j]))
    /\ [][\A j \in JudgeNames :
            /\ FailureRecorded(j) =>
                    /\ task[j] \in Metrics
                    /\ task'[j] = NextMetric(task[j])
                    /\ scores'[j][task[j]] = Null
                    /\ \A m \in Metrics \ {task[j]} : scores'[j][m] = scores[j][m]
                    /\ \A k \in JudgeNames \ {j} :
                            /\ scores'[k] = scores[k]
                            /\ errors'[k] = errors[k]
                            /\ task'[k] = task[k]
                    /\ jury_verdicts' = jury_verdicts
            /\ \A m \in Metrics :
                    scores[j][m] # Null => scores'[j][m] = scores[j][m]]_vars

\* The SA call of gpt-5.2 failed: its verdict has the CC and the FC it parsed,
\* and DeepSeek-v3.2 has a complete verdict.
C16_Witness ==
    /\ jury_pc = "returned"
    /\ DOMAIN jury_verdicts = JudgeNames
    /\ errors["gpt-5.2"] = <<"SA">>
    /\ jury_verdicts["gpt-5.2"] = [CC |-> 9000, SA |-> Null, FC |-> 0, has_error |-> TRUE]
    /\ jury_verdicts["DeepSeek-v3.2"] =
            [CC |-> 0, SA |-> 9000, FC |-> 9000, has_error |-> FALSE]

ConfiguredAgents == {j \in JudgeNames : judges[j] # "None"}

\* C17: when evaluate_response has returned, the keys of the judges map are
\* exactly the configured judges whose agent is not None, and each of them was
\* entered exactly once; a judge whose agent is None has no entry.
C17_OneEntryPerDispatchedJudge ==
    jury_pc = "returned" =>
        /\ DOMAIN jury_verdicts = ConfiguredAgents
        /\ Len(verdict_order) = Cardinality(ConfiguredAgents)
        /\ \A j \in ConfiguredAgents :
                Cardinality({i \in 1..Len(verdict_order) : verdict_order[i] = j}) = 1

\* The agent of DeepSeek-v3.2 is None: evaluate_response returns with the one
\* entry of gpt-5.2, whose calls all failed.
C17_Witness ==
    /\ jury_pc = "returned"
    /\ judges = [j \in JudgeNames |-> IF j = "gpt-5.2" THEN "agent" ELSE "None"]
    /\ DOMAIN jury_verdicts = {"gpt-5.2"}
    /\ verdict_order = <<"gpt-5.2">>
    /\ jury_verdicts["gpt-5.2"] = ExecutionFailedVerdict

\* C18: a judge verdict has an error field if and only if at least one of its
\* CC, SA and FC is null.
C18_ErrorIffNullMetric ==
    \A j \in DOMAIN jury_verdicts :
        jury_verdicts[j].has_error <=>
            (Null \in {jury_verdicts[j].CC, jury_verdicts[j].SA, jury_verdicts[j].FC})

\* One verdict with an error for its FC alone, one without an error.
C18_Witness ==
    /\ DOMAIN jury_verdicts = JudgeNames
    /\ jury_verdicts["DeepSeek-v3.2"] =
            [CC |-> 9000, SA |-> 0, FC |-> Null, has_error |-> TRUE]
    /\ errors["DeepSeek-v3.2"] = <<"FC">>
    /\ ~jury_verdicts["gpt-5.2"].has_error

InUnitInterval(x) == x = Null \/ x \in 0..10000

\* C19 (as stated): every non-null CC, SA or FC of a judge verdict lies in
\* [0, 1], whatever score the judge's response holds, and so does every
\* non-null CC, SA and FC of the returned consensus.
C19_ScoresWithinUnitInterval ==
    /\ \A j \in DOMAIN jury_verdicts :
            \A m \in Metrics : InUnitInterval(jury_verdicts[j][m])
    /\ jury_pc = "returned" =>
            /\ InUnitInterval(consensus.CC)
            /\ InUnitInterval(consensus.SA)
            /\ InUnitInterval(consensus.FC)

\* The verdict the task of judge j returns.
TaskVerdict(j) == FinalVerdict(scores[j], errors[j])

\* The jury_verdicts dict after the judges' verdicts were inserted in `order`.
RECURSIVE InsertedInOrder(_)
InsertedInOrder(order) ==
    IF order = <<>> THEN <<>>
    ELSE LET j == order[Len(order)]
         IN  (j :> TaskVerdict(j)) @@ InsertedInOrder(SubSeq(order, 1, Len(order) - 1))

\* Every order in which the dispatched judges can complete.
CompletionOrders ==
    {order \in [1..Cardinality(Dispatched) -> Dispatched] :
        \A i, k \in DOMAIN order : order[i] = order[k] => i = k}

MetricOrder == <<"CC", "SA", "FC">>

\* C21: for each judge with an agent, agent.query is called once per metric in
\* the order CC, SA, FC, whatever the earlier calls gave: the calls made so far
\* are a prefix of CC, SA, FC, the metric a running task is at is the one after
\* its last call, and when evaluate_response has returned each such judge has
\* made exactly the three calls (a judge without an agent none).
C21_ThreeSequentialQueries ==
    \A j \in JudgeNames :
        /\ query_log[j] = SubSeq(MetricOrder, 1, Len(query_log[j]))
        /\ task[j] \in Metrics => task[j] = MetricOrder[Len(query_log[j]) + 1]
        /\ task[j] = "finished" => query_log[j] = MetricOrder
        /\ jury_pc = "returned" =>
                query_log[j] = (IF judges[j] # "None" THEN MetricOrder ELSE <<>>)

\* The calls of the two judges interleave: gpt-5.2, whose CC call failed, is
\* at its FC call while DeepSeek-v3.2 has made its CC call only.
C21_Witness ==
    /\ jury_pc = "collect"
    /\ query_log["gpt-5.2"] = <<"CC", "SA">>
    /\ errors["gpt-5.2"] = <<"CC">>
    /\ task["gpt-5.2"] = "FC"
    /\ query_log["DeepSeek-v3.2"] = <<"CC">>
    /\ task["DeepSeek-v3.2"] = "SA"

(***************************************************************************)
(* Claims about _compute_consensus (checked under SpecAggregator)          *)
(***************************************************************************)
AggValid == ValidJudges(agg_verdicts)
AggScored == agg_pc = "computed" /\ agg_result.judge_count >= 1

\* C11: the consensus CC and SA are weighted averages over the valid judges
\* that have a weight: with DeepSeek-v3.2 and gpt-5.2 both valid, CC is
\* 0.6 * DeepSeek + 0.4 * gpt and SA is 0.6 * gpt + 0.4 * DeepSeek; with one of
\* them valid the weights renormalise and the value is that judge's own; with
\* neither valid (total weight zero) the value is null.
C11_WeightedAverage ==
    AggScored =>
        LET d == "DeepSeek-v3.2"
            g == "gpt-5.2"
            v == agg_verdicts
        IN  /\ ({d, g} \subseteq AggValid) =>
                    /\ agg_result.CC = RoundDiv(60 * v[d].CC + 40 * v[g].CC, 100)
                    /\ agg_result.SA = RoundDiv(60 * v[g].SA + 40 * v[d].SA, 100)
            /\ (d \in AggValid /\ g \notin AggValid) =>
                    (agg_result.CC = v[d].CC /\ agg_result.SA = v[d].SA)
            /\ (g \in AggValid /\ d \notin AggValid) =>
                    (agg_result.CC = v[g].CC /\ agg_result.SA = v[g].SA)
            /\ (d \notin AggValid /\ g \notin AggValid) =>
                    (agg_result.CC = Null /\ agg_result.SA = Null)

\* Two valid judges weighted 0.6 / 0.4 report CC 1.0 and 0.0: consensus CC 0.6.
C11_Witness ==
    /\ agg_pc = "computed"
    /\ AggValid = {"DeepSeek-v3.2", "gpt-5.2"}
    /\ agg_verdicts["DeepSeek-v3.2"].CC = 10000
    /\ agg_verdicts["gpt-5.2"].CC = 0
    /\ agg_result.CC = 6000

\* n^2 times the population variance of the valid judges' scores of a metric.
AggVarianceTimesN2(metric) ==
    LET n == Cardinality(AggValid)
        xs == [j \in AggValid |-> agg_verdicts[j][metric]]
    IN  n * SumOver(AggValid, [j \in AggValid |-> xs[j] * xs[j]])
            - SumOver(AggValid, xs) * SumOver(AggValid, xs)

\* `std` is the population standard deviation of the metric, to the 4 decimals
\* of the report: |std - sqrt(variance)| <= 1/2 + 1/n units of 0.0001.
AggIsPopulationStd(std, metric) ==
    LET n == Cardinality(AggValid)
        lo == 2 * n * std - n - 2
        hi == 2 * n * std + n + 2
    IN  /\ std >= 0
        /\ (lo <= 0 \/ lo * lo <= 4 * AggVarianceTimesN2(metric))
        /\ 4 * AggVarianceTimesN2(metric) <= hi * hi
        /\ (n < 2 => std = 0)

AggClampedAgreement(cc_std, sa_std, fc_std) ==
    LET raw3 == 3 * 10000 - 2 * (cc_std + sa_std + fc_std)
    IN  IF raw3 < 0 THEN 0 ELSE RoundDiv(raw3, 3)

AggUnanimous ==
    \A j, k \in AggValid :
        /\ agg_verdicts[j].CC = agg_verdicts[k].CC
        /\ agg_verdicts[j].SA = agg_verdicts[k].SA
        /\ agg_verdicts[j].FC = agg_verdicts[k].FC

\* C14: when all valid judges (at least one) report the same CC, SA and FC,
\* agreement_score is exactly 1.0.
C14_UnanimousAgreement ==
    (AggScored /\ AggUnanimous) => agg_result.agreement_score = 10000

\* Three valid judges that all report CC 1.0, SA 0.0, FC 1.0.
C14_Witness ==
    /\ agg_pc = "computed"
    /\ Cardinality(AggValid) = 3
    /\ \A j \in AggValid :
            agg_verdicts[j] = [CC |-> 10000, SA |-> 0, FC |-> 10000, has_error |-> FALSE]
    /\ agg_result.agreement_score = 10000
    /\ agg_result.judge_count = 3


\* The recommendation that the reported judge_count and agreement_score call for.
RecommendationOfReport(judge_count, agreement_score) ==
    IF judge_count = 1 THEN "SINGLE JUDGE - No consensus possible"
    ELSE IF agreement_score > 8500 THEN "ROBUST - Unanimous jury"
    ELSE IF agreement_score > 6500 THEN "MODERATE - Jury consensus with variation"
    ELSE "CAUTION - Jury disagreement (brittle response?)"

\* C22 (as stated): in every consensus with judge_count >= 1 the
\* recommendation is the one determined by the reported judge_count and the
\* reported agreement_score: single-judge for one judge, otherwise robust
\* above 0.85, moderate above 0.65 up to 0.85, caution up to 0.65.
C22_RecommendationOfReportedFields ==
    AggScored =>
        agg_result.recommendation =
            RecommendationOfReport(agg_result.judge_count, agg_result.agreement_score)

\* C27 (as stated): a consensus that reports judge_count >= 1 has a non-null
\* CC, SA and FC, whatever the names of the judges.
C27_CountedConsensusIsComplete ==
    AggScored =>
        /\ agg_result.CC # Null
        /\ agg_result.SA # Null
        /\ agg_result.FC # Null

(***************************************************************************)
(* Claims about _parse_verdict (checked under SpecQuery)                   *)
(***************************************************************************)
\* C23 (as stated): _parse_verdict returns a dict and never raises, for every
\* value agent.query hands it (the None of an exhausted retry included), and
\* the returned score is null unless the text is a JSON object, bare or
\* fenced, with a numeric score.
C23_ParseIsTotal ==
    /\ parse_pc # "raised"
    /\ (parse_pc = "parsed" /\ agent_response.kind \notin {"json", "fenced"})
            => parsed.score = Null

(***************************************************************************)
(* Claims about calculate_backoff_delay (checked under SpecBackoff)        *)
(***************************************************************************)
\* d is min(base_delay * backoff_multiplier^i, max_delay), to the hundredth of
\* a second.
IsCappedBackoff(d, i) ==
    LET exact == base_delay * Pow(backoff_multiplier, i)
        scale == Pow(10, i)
    IN  IF exact >= max_delay * scale THEN d = max_delay
        ELSE d * scale <= exact /\ exact < (d + 1) * scale

\* C24: the delay before retry i (0-indexed) is d + jitter with
\* d = min(base_delay * backoff_multiplier^i, max_delay) and
\* 0 <= jitter <= 0.1 * d: it lies in [d, 1.1 * d], never exceeds
\* 1.1 * max_delay, and d does not decrease with i when the multiplier is at
\* least 1.
C24_BackoffDelay ==
    \A k \in 1..Len(delays) :
        /\ IsCappedBackoff(delays[k].capped, k - 1)
        /\ delays[k].capped <= delays[k].returned
        /\ 10 * delays[k].returned <= 11 * delays[k].capped
        /\ 10 * delays[k].returned <= 11 * max_delay
        /\ (backoff_multiplier >= 10 /\ k > 1) => delays[k - 1].capped <= delays[k].capped

\* base_delay 2.0, multiplier 2.0, max_delay 5.0: the delays 2.0, 4.0 and then
\* the cap 5.0, the last one with the full jitter 5.5.
C24_Witness ==
    /\ base_delay = 200 /\ backoff_multiplier = 20 /\ max_delay = 500
    /\ Len(delays) >= 3
    /\ delays[1].capped = 200 /\ delays[2].capped = 400 /\ delays[3].capped = 500
    /\ delays[3].returned = 550

(***************************************************************************)
(* Claims about the cached client getters (checked under SpecClients)      *)
(***************************************************************************)
AtMostOneClientPerKey ==
    \A i, j \in 1..Len(created) :
        (created[i].getter = created[j].getter /\ created[i].key = created[j].key) => i = j

SameKeySameInstance ==
    \A c, d \in Callers :
        (/\ cl_pc[c] = "returned" /\ cl_pc[d] = "returned"
         /\ cl_args[c].getter = cl_args[d].getter
         /\ CacheKey(cl_args[c]) = CacheKey(cl_args[d]))
            => cl_result[c] = cl_result[d]

EntryKept ==
    \A g \in Getters : \A key \in DOMAIN clients[g] :
        key \in DOMAIN clients'[g] /\ clients'[g][key] = clients[g][key]

\* C28: under every interleaving of concurrent callers, each getter
\* constructs at most one client per cache key, callers of one getter with
\* the same key are returned the same client, and an entry of a pool is
\* never replaced.
C28_OneClientPerKey ==
    /\ [](AtMostOneClientPerKey /\ SameKeySameInstance)
    /\ [][EntryKept]_vars

\* Two callers of get_azure_openai_client with the same key both found the
\* key absent at the first check: caller 1 constructed the client and was
\* returned it, caller 2 now holds the lock with the entry in the pool.
C28_Witness ==
    /\ \A c \in Callers :
            cl_args[c] = [getter |-> "get_azure_openai_client", api_key |-> "key-1",
                          url |-> "https://host"]
    /\ cl_pc[1] = "returned"
    /\ cl_result[1] = 1
    /\ cl_pc[2] = "locked"
    /\ Len(created) = 1

====
